---- MODULE Spec2Model ----
(***************************************************************************)
(* Model of transcriptToSbv.py: the timestamp codec (timestamp,            *)
(* timestampStr) and the caption realigner adjustSbv.                      *)
(*                                                                         *)
(* Time values are integers counting milliseconds (the source uses floats  *)
(* counting seconds; arithmetic is modelled as exact).  A Python value     *)
(* that may be None is a sequence: <<>> for None, <<v>> for the value v.   *)
(* A textual timestamp is the sequence of its colon separated components,  *)
(* each the value float() gives for it, in milliseconds.                   *)
(***************************************************************************)
EXTENDS Integers, Sequences, FiniteSets, TLC

\* ------------------------------------------------------------------ bounds
\* Largest number of input lines read from finp in one run.
MaxLines == 4
\* Largest hour count of the values given to the codec.
MaxHours == 1
\* Largest number of colon separated components of the texts parsed.
MaxComps == 3
\* Largest number of input lines read in a run on SBV input only.
MaxDualLines == 5

\* --------------------------------------------------------------- constants
None == <<>>
\* A colon component float() cannot convert (as in "1x"): raises ValueError.
NotANumber == -1
\* "Last caption let lasts 5 sec", in milliseconds.
LastCaptionMs == 5000

\* ------------------------------------------------------------- input lines
\* An input line: its text, whether it starts with hdrMark, the number of
\* tokens ln.split(maxsplit=1) gives, whether toks[0][0] is a digit, and
\* its comma separated fields (for digit-led single-token lines).
Ln(txt, hash, ntoks, digit, fields) ==
    [txt |-> txt, hash |-> hash, ntoks |-> ntoks, digit |-> digit, fields |-> fields]

LnHdr    == Ln("# c", TRUE, 2, FALSE, <<>>)
LnBlank  == Ln("", FALSE, 0, FALSE, <<>>)
LnHello  == Ln("Hello", FALSE, 1, FALSE, <<>>)
LnWorld  == Ln("World", FALSE, 1, FALSE, <<>>)
LnCats   == Ln("5 cats", FALSE, 2, TRUE, <<>>)
LnT0     == Ln("0:00", FALSE, 1, TRUE, << <<0, 0>> >>)
LnT5     == Ln("0:00:05", FALSE, 1, TRUE, << <<0, 0, 5000>> >>)
LnD10    == Ln("0:00:10.000,0:00:12.000", FALSE, 1, TRUE,
               << <<0, 0, 10000>>, <<0, 0, 12000>> >>)
LnD15    == Ln("0:00:15.000,0:00:18.000", FALSE, 1, TRUE,
               << <<0, 0, 15000>>, <<0, 0, 18000>> >>)
LnTriple == Ln("1,2,3", FALSE, 1, TRUE, << <<1000>>, <<2000>>, <<3000>> >>)
LnBad    == Ln("1x", FALSE, 1, TRUE, << <<NotANumber>> >>)

Lines == {LnHdr, LnBlank, LnHello, LnWorld, LnCats, LnT0, LnT5, LnD10, LnD15,
          LnTriple, LnBad}

\* The --start-time values of a run: absent, 0 and 2.005 s.
StartTimes == {None, <<0>>, <<2005>>}

\* Values given to the codec, in whole milliseconds.
CodecMinutes == {0, 3, 59}
CodecSeconds == {0, 5, 12, 59}
\* The hour counts: the small ones and one of three digits.
CodecHours == (0..MaxHours) \cup {100}
CodecTimes == {((h * 60 + m) * 60 + s) * 1000 + ms :
                 h \in CodecHours, m \in CodecMinutes, s \in CodecSeconds,
                 ms \in 0..999}

VARIABLES finp, tsArg, isHdr, isSbv, ts, times, captions, fout, pc,
          time, timeStr, parsed

vars == <<finp, tsArg, isHdr, isSbv, ts, times, captions, fout, pc,
          time, timeStr, parsed>>

\* ------------------------------------------------------------------- codec
RECURSIVE timestampFrom(_, _, _)
timestampFrom(comps, i, mul) ==
    IF i = 0 THEN 0
    ELSE comps[i] * mul + timestampFrom(comps, i - 1, mul * 60)

\* timestamp() with reversed() forgotten: the leftmost component is seconds.
timestamp_Forward(comps) ==
    timestampFrom([i \in 1..Len(comps) |-> comps[Len(comps) + 1 - i]],
                  Len(comps), 1)

\* timestamp(): the components from right to left, times 1, 60, 3600, ...
timestamp(comps) == timestampFrom(comps, Len(comps), 1)

\* float(t) raises ValueError for some component of the text.
RaisesValueError(comps) == \E i \in 1..Len(comps) : comps[i] = NotANumber

RECURSIVE Digits(_)
\* str(n) of a non-negative integer, as its decimal digits.
Digits(n) == IF n < 10 THEN <<n>> ELSE Append(Digits(n \div 10), n % 10)

RECURSIVE PadLeft(_, _)
\* Format spec 0>w: fill with '0' on the left up to width w.
PadLeft(ds, w) == IF Len(ds) >= w THEN ds ELSE PadLeft(<<0>> \o ds, w)

RECURSIVE PadRight(_, _)
\* Format spec 0<w: fill with '0' on the right up to width w.
PadRight(ds, w) == IF Len(ds) >= w THEN ds ELSE PadRight(Append(ds, 0), w)

\* timestampStr() with the seconds not padded.
timestampStr_NoPad(t) ==
    LET ss0 == t \div 1000
        ms  == t - ss0 * 1000
        mm0 == ss0 \div 60
        ss  == ss0 % 60
        h   == mm0 \div 60
        mm  == mm0 % 60
    IN [h |-> Digits(h), mm |-> PadLeft(Digits(mm), 2),
        ss |-> Digits(ss), ms |-> PadRight(Digits(ms), 3)]

\* timestampStr(): the text h:mm:ss.ms as its four digit strings.
timestampStr(t) ==
    LET ss0 == t \div 1000
        ms  == t - ss0 * 1000
        mm0 == ss0 \div 60
        ss  == ss0 % 60
        h   == mm0 \div 60
        mm  == mm0 % 60
    IN [h |-> Digits(h), mm |-> PadLeft(Digits(mm), 2),
        ss |-> PadLeft(Digits(ss), 2), ms |-> PadRight(Digits(ms), 3)]

RECURSIVE NumOf(_)
\* The number a string of decimal digits denotes.
NumOf(ds) == IF ds = <<>> THEN 0
             ELSE NumOf(SubSeq(ds, 1, Len(ds) - 1)) * 10 + ds[Len(ds)]

RECURSIVE Pow10(_)
Pow10(n) == IF n = 0 THEN 1 ELSE 10 * Pow10(n - 1)

\* The text h:mm:ss.ms split on ':' with float() of each component, in ms
\* (fraction digits beyond the third are dropped).
StrComponents(str) ==
    LET k    == Len(str.ms)
        frac == IF k <= 3 THEN NumOf(str.ms) * Pow10(3 - k)
                ELSE NumOf(str.ms) \div Pow10(k - 3)
    IN <<NumOf(str.h) * 1000, NumOf(str.mm) * 1000, NumOf(str.ss) * 1000 + frac>>

\* --------------------------------------------------------------- adjustSbv
\* The locals of adjustSbv as one value.
State == [isHdr |-> isHdr, isSbv |-> isSbv, ts |-> ts, times |-> times,
          captions |-> captions, fout |-> fout, pc |-> pc]

\* The locals on entry to adjustSbv(finp, fout, ts).
Entry(startTime) ==
    [isHdr |-> TRUE, isSbv |-> None, ts |-> startTime, times |-> <<>>,
     captions |-> <<>>, fout |-> <<>>, pc |-> "loop"]

\* An exception leaves adjustSbv; what was written stays written.
Raise(s, exc) == [s EXCEPT !.pc = exc]

\* Lines of the output file.
TimeLine(stamps) == [kind |-> "time", stamps |-> stamps, text |-> ""]
TextLine(ln)     == [kind |-> "text", stamps |-> <<>>, text |-> ln.txt]
SepLine          == [kind |-> "sep", stamps |-> <<>>, text |-> ""]

\* timeSep.join(timestampStr(t) for t in times) + '\n'
JoinTimes(ts_) == TimeLine([i \in 1..Len(ts_) |-> timestampStr(ts_[i])])

\* The assertion of timestampStr fails for one of the times.
NegativeTime(ts_) == \E i \in 1..Len(ts_) : ts_[i] < 0

WriteLines(lns) == [i \in 1..Len(lns) |-> TextLine(lns[i])]

\* ts or 0
OrZero(t) == IF t = None THEN 0 ELSE t[1]

\* Output with the blank line after the captions forgotten.
Output_NoSep(s, timesNew) ==
    IF s.captions = <<>> THEN s
    ELSE IF NegativeTime(s.times) THEN Raise(s, "AssertionError")
    ELSE [s EXCEPT
            !.fout = @ \o <<JoinTimes(s.times)>> \o WriteLines(s.captions),
            !.times = IF s.isSbv = <<TRUE>> THEN timesNew ELSE Tail(s.times),
            !.captions = <<>>]

\* Output with captions.clear() forgotten.
Output_NoClear(s, timesNew) ==
    IF s.captions = <<>> THEN s
    ELSE IF NegativeTime(s.times) THEN Raise(s, "AssertionError")
    ELSE [s EXCEPT
            !.fout = @ \o <<JoinTimes(s.times)>> \o WriteLines(s.captions)
                       \o <<SepLine>>,
            !.times = IF s.isSbv = <<TRUE>> THEN timesNew ELSE Tail(s.times)]

\* "if captions:" inside the loop: output timestamps and captions.
Output(s, timesNew) ==
    IF s.captions = <<>> THEN s
    ELSE IF NegativeTime(s.times) THEN Raise(s, "AssertionError")
    ELSE [s EXCEPT
            !.fout = @ \o <<JoinTimes(s.times)>> \o WriteLines(s.captions)
                       \o <<SepLine>>,
            !.times = IF s.isSbv = <<TRUE>> THEN timesNew ELSE Tail(s.times),
            !.captions = <<>>]

\* The first timestamp line: identify the format, compute the offset.
FetchFirst(s, ln) ==
    IF \E i \in 1..Len(ln.fields) : RaisesValueError(ln.fields[i])
    THEN Raise(s, "ValueError")
    ELSE LET timesNew == [i \in 1..Len(ln.fields) |-> timestamp(ln.fields[i])]
             sbv      == Len(timesNew) = 2
             off      == IF s.ts # None THEN <<timesNew[1] - s.ts[1]>> ELSE s.ts
         IN IF s.times # <<>> THEN Raise(s, "AssertionError")
            ELSE Output([s EXCEPT
                           !.isSbv = <<sbv>>,
                           !.ts = off,
                           !.times = IF ~sbv
                                     THEN Append(@, timesNew[1] - OrZero(off))
                                     ELSE @],
                        timesNew)

\* FetchSbv with the format identified anew from each timestamp line.
FetchSbv_Redetect(s, ln) ==
    IF \E i \in 1..Len(ln.fields) : RaisesValueError(ln.fields[i])
    THEN Raise(s, "ValueError")
    ELSE LET timesNew == [i \in 1..Len(ln.fields) |-> timestamp(ln.fields[i])]
         IN IF Len(s.times) # 2 THEN Raise(s, "AssertionError")
            ELSE Output([s EXCEPT
                           !.isSbv = <<Len(timesNew) = 2>>,
                           !.times = IF s.ts # None
                                     THEN [i \in 1..Len(@) |-> @[i] - s.ts[1]]
                                     ELSE @],
                        timesNew)

\* A later timestamp line of the SBV format.
FetchSbv(s, ln) ==
    IF \E i \in 1..Len(ln.fields) : RaisesValueError(ln.fields[i])
    THEN Raise(s, "ValueError")
    ELSE LET timesNew == [i \in 1..Len(ln.fields) |-> timestamp(ln.fields[i])]
         IN IF Len(s.times) # 2 THEN Raise(s, "AssertionError")
            ELSE Output([s EXCEPT
                           !.times = IF s.ts # None
                                     THEN [i \in 1..Len(@) |-> @[i] - s.ts[1]]
                                     ELSE @],
                        timesNew)

\* FetchRaw with the offset forgotten.
FetchRaw_NoOffset(s, ln) ==
    IF Len(s.times) # 1 THEN Raise(s, "AssertionError")
    ELSE IF Len(ln.fields) # 1 \/ RaisesValueError(ln.fields[1])
    THEN Raise(s, "ValueError")
    ELSE Output([s EXCEPT !.times = Append(@, timestamp(ln.fields[1]))], None)

\* A later timestamp line of the raw format: timestamp(ln) of the whole line.
FetchRaw(s, ln) ==
    IF Len(s.times) # 1 THEN Raise(s, "AssertionError")
    ELSE IF Len(ln.fields) # 1 \/ RaisesValueError(ln.fields[1])
    THEN Raise(s, "ValueError")
    ELSE Output([s EXCEPT
                   !.times = Append(@, timestamp(ln.fields[1]) - OrZero(s.ts))],
                None)

IsHeader(s, ln)  == s.isHdr /\ ln.hash
IsBlank(ln)      == ln.ntoks = 0
IsCaption(ln)    == ln.ntoks >= 2 \/ ~ln.digit

\* ProcessLine with the "continue" of the header comments forgotten.
ProcessLine_NoContinue(s, ln) ==
    LET s1 == [s EXCEPT !.isHdr = FALSE]
    IN IF IsBlank(ln) THEN s1
       ELSE IF IsCaption(ln)
       THEN [s1 EXCEPT !.captions = Append(@, ln)]
       ELSE IF s1.isSbv = None THEN FetchFirst(s1, ln)
       ELSE IF s1.isSbv = <<TRUE>> THEN FetchSbv(s1, ln)
       ELSE FetchRaw(s1, ln)

\* ProcessLine with "Omit empty lines" forgotten: a blank line is buffered.
ProcessLine_BlankBuffered(s, ln) ==
    IF IsHeader(s, ln) THEN s
    ELSE LET s1 == [s EXCEPT !.isHdr = FALSE]
         IN IF IsBlank(ln) \/ IsCaption(ln)
            THEN [s1 EXCEPT !.captions = Append(@, ln)]
            ELSE IF s1.isSbv = None THEN FetchFirst(s1, ln)
            ELSE IF s1.isSbv = <<TRUE>> THEN FetchSbv(s1, ln)
            ELSE FetchRaw(s1, ln)

\* One iteration of "for ln in finp".
ProcessLine(s, ln) ==
    IF IsHeader(s, ln) THEN s
    ELSE LET s1 == [s EXCEPT !.isHdr = FALSE]
         IN IF IsBlank(ln) THEN s1
            ELSE IF IsCaption(ln)
            THEN [s1 EXCEPT !.captions = Append(@, ln)]
            ELSE IF s1.isSbv = None THEN FetchFirst(s1, ln)
            ELSE IF s1.isSbv = <<TRUE>> THEN FetchSbv(s1, ln)
            ELSE FetchRaw(s1, ln)

\* After the loop: output remaining captions with leading timestamps.
Remaining(s) ==
    IF s.captions = <<>> THEN [s EXCEPT !.pc = "done"]
    ELSE LET times2 == IF Len(s.times) = 1
                       THEN Append(s.times, s.times[1] + LastCaptionMs)
                       ELSE s.times
         IN IF NegativeTime(times2) THEN Raise(s, "AssertionError")
            ELSE [s EXCEPT
                    !.times = times2,
                    !.fout = @ \o <<JoinTimes(times2)>> \o WriteLines(s.captions),
                    !.pc = "done"]

\* The locals become s.
Become(s) ==
    /\ isHdr' = s.isHdr
    /\ isSbv' = s.isSbv
    /\ ts' = s.ts
    /\ times' = s.times
    /\ captions' = s.captions
    /\ fout' = s.fout
    /\ pc' = s.pc

\* The loop reads the next line ln of the input file.
Read(ln) ==
    /\ pc = "loop"
    /\ Len(finp) < MaxLines
    /\ finp' = Append(finp, ln)
    /\ Become(ProcessLine(State, ln))
    /\ UNCHANGED <<tsArg, time, timeStr, parsed>>

HeaderLine == \E ln \in Lines : IsHeader(State, ln) /\ Read(ln)

BlankLine == \E ln \in Lines : ~IsHeader(State, ln) /\ IsBlank(ln) /\ Read(ln)

CaptionLine ==
    \E ln \in Lines :
        ~IsHeader(State, ln) /\ ~IsBlank(ln) /\ IsCaption(ln) /\ Read(ln)

IsTimes(ln) == ~IsHeader(State, ln) /\ ~IsBlank(ln) /\ ~IsCaption(ln)

FirstTimesLine == \E ln \in Lines : IsTimes(ln) /\ isSbv = None /\ Read(ln)

SbvTimesLine == \E ln \in Lines : IsTimes(ln) /\ isSbv = <<TRUE>> /\ Read(ln)

RawTimesLine == \E ln \in Lines : IsTimes(ln) /\ isSbv = <<FALSE>> /\ Read(ln)

EndOfInput ==
    /\ pc = "loop"
    /\ Become(Remaining(State))
    /\ UNCHANGED <<finp, tsArg, time, timeStr, parsed>>

Init ==
    /\ finp = <<>>
    /\ tsArg \in StartTimes
    /\ isHdr = TRUE
    /\ isSbv = None
    /\ ts = tsArg
    /\ times = <<>>
    /\ captions = <<>>
    /\ fout = <<>>
    /\ pc = "loop"
    /\ time = 0
    /\ timeStr = None
    /\ parsed = None

Next ==
    \/ HeaderLine
    \/ BlankLine
    \/ CaptionLine
    \/ FirstTimesLine
    \/ SbvTimesLine
    \/ RawTimesLine
    \/ EndOfInput

Spec == Init /\ [][Next]_vars

\* ------------------------------------------------- the codec on its own
CodecInit ==
    /\ finp = <<>>
    /\ tsArg = None
    /\ isHdr = TRUE
    /\ isSbv = None
    /\ ts = None
    /\ times = <<>>
    /\ captions = <<>>
    /\ fout = <<>>
    /\ pc = "codec"
    /\ time \in CodecTimes
    /\ timeStr = None
    /\ parsed = None

\* timeStr = timestampStr(time)
Format ==
    /\ pc = "codec"
    /\ timeStr = None
    /\ timeStr' = <<timestampStr(time)>>
    /\ UNCHANGED <<finp, tsArg, isHdr, isSbv, ts, times, captions, fout, pc,
                   time, parsed>>

\* parsed = timestamp(timeStr)
Parse ==
    /\ pc = "codec"
    /\ timeStr # None
    /\ parsed = None
    /\ parsed' = <<timestamp(StrComponents(timeStr[1]))>>
    /\ UNCHANGED <<finp, tsArg, isHdr, isSbv, ts, times, captions, fout, pc,
                   time, timeStr>>

CodecNext == Format \/ Parse

CodecSpec == CodecInit /\ [][CodecNext]_vars

\* ----------------------------------------------- reading input and output
Errors == {"AssertionError", "ValueError"}

\* A digit-led single-token line: the loop takes it for a timestamp line.
IsTimesLine(ln) == ~IsBlank(ln) /\ ~IsCaption(ln)

RECURSIVE HdrLen(_)
\* The number of leading lines that start with hdrMark.
HdrLen(inp) ==
    IF inp = <<>> \/ ~inp[1].hash THEN 0 ELSE 1 + HdrLen(Tail(inp))

\* The input after its header comments.
StripHeader(inp) == SubSeq(inp, HdrLen(inp) + 1, Len(inp))

\* The lines of the input that are neither header comments nor blank.
Body(inp) == SelectSeq(StripHeader(inp), LAMBDA ln : ~IsBlank(ln))

RECURSIVE Blocks(_)
\* A body that starts with a timestamp line, as its timestamp lines each
\* with the caption text that follows it.
Blocks(b) ==
    IF b = <<>> THEN <<>>
    ELSE LET prev == Blocks(SubSeq(b, 1, Len(b) - 1))
             last == b[Len(b)]
         IN IF IsTimesLine(last) THEN Append(prev, [meta |-> last, text |-> <<>>])
            ELSE [prev EXCEPT ![Len(prev)].text = Append(@, last.txt)]

RECURSIVE Records(_)
\* The output file as records: a timestamp line and the text lines up to
\* the next timestamp line.
Records(out) ==
    IF out = <<>> THEN <<>>
    ELSE LET prev == Records(SubSeq(out, 1, Len(out) - 1))
             last == out[Len(out)]
         IN IF last.kind = "time"
            THEN Append(prev, [stamps |-> last.stamps, text |-> <<>>])
            ELSE IF last.kind = "text" /\ prev # <<>>
            THEN [prev EXCEPT ![Len(prev)].text = Append(@, last.text)]
            ELSE prev

\* The record (start, end, text) as it is written.
Rec(start, end, text) ==
    [stamps |-> <<timestampStr(start), timestampStr(end)>>, text |-> text]

\* The time of the k-th field of a timestamp line.
FieldTime(ln, k) == timestamp(ln.fields[k])

\* Every field of the line is a timestamp float() accepts.
WellFormed(ln) == \A k \in 1..Len(ln.fields) : ~RaisesValueError(ln.fields[k])

\* First timestamp of the first timestamp line minus the start time.
Offset(b) == IF tsArg = None THEN 0 ELSE FieldTime(b[1], 1) - tsArg[1]

IsPrefix(p, q) == Len(p) <= Len(q) /\ SubSeq(q, 1, Len(p)) = p

RECURSIVE Replay(_, _)
\* adjustSbv run on the lines inp from the locals s.
Replay(inp, s) ==
    IF inp = <<>> \/ s.pc # "loop" THEN s
    ELSE Replay(Tail(inp), ProcessLine(s, inp[1]))

\* adjustSbv(inp, fout, startTime), to the end of the input when ended.
RunOn(inp, startTime, ended) ==
    LET s == Replay(inp, Entry(startTime))
    IN IF ended /\ s.pc = "loop" THEN Remaining(s) ELSE s

\* ---------------------------------------------------------------------- C1
\* The body is timestamp lines 'T1,T2', the first line one of them, none
\* directly followed by another.
DualShape(b) ==
    /\ b # <<>>
    /\ IsTimesLine(b[1])
    /\ \A i \in 1..Len(b) :
         IsTimesLine(b[i]) =>
            /\ Len(b[i].fields) = 2
            /\ WellFormed(b[i])
            /\ (i < Len(b) => ~IsTimesLine(b[i + 1]))

DualExpected(b) ==
    LET bl == SelectSeq(Blocks(b), LAMBDA x : x.text # <<>>)
    IN [i \in 1..Len(bl) |->
          Rec(FieldTime(bl[i].meta, 1) - Offset(b),
              FieldTime(bl[i].meta, 2) - Offset(b), bl[i].text)]

\* C1: on a Dual input whose timestamp lines 'T1,T2' are each followed by
\* caption text, adjustSbv raises no error and at the end of the input has
\* written one record per timestamp line, in order, with start T1 - offset,
\* end T2 - offset and the text that followed the line; the input
\* 10,12 / Hello / 15,18 / World with start time 0 gives (0,2,[Hello]) and
\* (5,8,[World]).
C1_DualRecords ==
    LET b == Body(finp)
    IN DualShape(b) =>
         /\ pc \notin Errors
         /\ (pc = "done" /\ ~IsTimesLine(b[Len(b)])) =>
               Records(fout) = DualExpected(b)
         /\ (pc = "done" /\ tsArg = <<0>>
               /\ finp = <<LnD10, LnHello, LnD15, LnWorld>>) =>
               Records(fout) = <<Rec(0, 2000, <<"Hello">>),
                                 Rec(5000, 8000, <<"World">>)>>

\* ---------------------------------------------------------------------- C2
\* The timestamp a reader of the output gets from a written timestamp.
Reads(str) == timestamp(StrComponents(str))

\* The index of the first timestamp line of the input, 0 if there is none.
FirstTimes(inp) ==
    IF \E i \in 1..Len(inp) : IsTimesLine(inp[i])
    THEN CHOOSE i \in 1..Len(inp) :
           IsTimesLine(inp[i]) /\ \A j \in 1..(i - 1) : ~IsTimesLine(inp[j])
    ELSE 0

\* C2: realignment is a uniform shift: on every input that the run with a
\* start time reads without raising, that run and the run without a start
\* time end alike and write the same lines with the same text, and every
\* written timestamp of the shifted run is the corresponding timestamp of
\* the un-shifted run minus
\* (first timestamp of the first timestamp line) - (start time).
C2_UniformShift ==
    (tsArg # None /\ pc \notin Errors /\ FirstTimes(finp) # 0) =>
      LET ref == RunOn(finp, None, pc = "done")
          off == FieldTime(finp[FirstTimes(finp)], 1) - tsArg[1]
      IN /\ ref.pc = pc
         /\ Len(ref.fout) = Len(fout)
         /\ \A i \in 1..Len(fout) :
              (i <= Len(ref.fout)) =>
                /\ fout[i].kind = ref.fout[i].kind
                /\ fout[i].text = ref.fout[i].text
                /\ Len(fout[i].stamps) = Len(ref.fout[i].stamps)
                /\ \A j \in 1..Len(fout[i].stamps) :
                     (j <= Len(ref.fout[i].stamps)) =>
                        fout[i].stamps[j]
                          = timestampStr(Reads(ref.fout[i].stamps[j]) - off)

\* ---------------------------------------------------------------------- C3
\* The body is single-timestamp lines and caption text in alternation,
\* starting with a timestamp line.
SingleShape(b) ==
    /\ b # <<>>
    /\ IsTimesLine(b[1])
    /\ \A i \in 1..Len(b) :
         IsTimesLine(b[i]) =>
            /\ Len(b[i].fields) = 1
            /\ WellFormed(b[i])
            /\ (i < Len(b) => ~IsTimesLine(b[i + 1]))

\* For each caption block followed by a timestamp line: the offset-adjusted
\* times of the timestamp lines before and after it, and its text.
SinglePairs(b) ==
    LET bl == Blocks(b)
    IN [i \in 1..(Len(bl) - 1) |->
          [start |-> FieldTime(bl[i].meta, 1) - Offset(b),
           end   |-> FieldTime(bl[i + 1].meta, 1) - Offset(b),
           text  |-> bl[i].text]]

PairRecs(ps) == [i \in 1..Len(ps) |-> Rec(ps[i].start, ps[i].end, ps[i].text)]

NegPair(p) == p.start < 0 \/ p.end < 0

\* The records written are those of the pairs ps, at the end of the input
\* possibly with one more for the remaining captions.
WrittenAre(ps) ==
    /\ IsPrefix(PairRecs(ps), Records(fout))
    /\ Len(Records(fout)) <= Len(ps) + 1
    /\ pc = "loop" => Records(fout) = PairRecs(ps)

C3_Example ==
    (pc = "done" /\ tsArg = None /\ finp = <<LnT0, LnHello, LnT5, LnWorld>>) =>
       Records(fout) = <<Rec(0, 5000, <<"Hello">>),
                         Rec(5000, 10000, <<"World">>)>>

LastTimes(inp) ==
    IF \E i \in 1..Len(inp) : IsTimesLine(inp[i])
    THEN CHOOSE i \in 1..Len(inp) :
           IsTimesLine(inp[i]) /\ \A j \in (i + 1)..Len(inp) : ~IsTimesLine(inp[j])
    ELSE 0

\* Every timestamp line of the input is one well-formed timestamp, and
\* there is such a line.
SingleInput(inp) ==
    /\ FirstTimes(inp) # 0
    /\ \A i \in 1..Len(inp) :
         IsTimesLine(inp[i]) => Len(inp[i].fields) = 1 /\ WellFormed(inp[i])

\* C4: a Single input that starts with a timestamp line and ends with
\* buffered caption text gets a final record that starts at the most
\* recently parsed offset-adjusted timestamp and ends 5 seconds later,
\* whatever timestamp, text and blank lines came before; with an empty
\* buffer the end of the input writes nothing.
C4_LastRecord ==
    (pc = "done" /\ SingleInput(finp) /\ IsTimesLine(Body(finp)[1])) =>
       IF captions # <<>>
       THEN LET recs == Records(fout)
                t    == FieldTime(finp[LastTimes(finp)], 1)
                          - Offset(Body(finp))
            IN /\ recs # <<>>
               /\ recs[Len(recs)] =
                    Rec(t, t + LastCaptionMs,
                        [i \in 1..Len(captions) |-> captions[i].txt])
       ELSE fout = RunOn(finp, tsArg, FALSE).fout

\* ---------------------------------------------------------------------- C5
\* C5: every timestamp line of the output is exactly two timestamps
\* H:MM:SS.mmm joined by a comma, never none or one.
C5_TwoTimestamps ==
    \A i \in 1..Len(fout) :
       fout[i].kind = "time" =>
          /\ Len(fout[i].stamps) = 2
          /\ \A j \in 1..Len(fout[i].stamps) :
               /\ Len(fout[i].stamps[j].mm) = 2
               /\ Len(fout[i].stamps[j].ss) = 2
               /\ Len(fout[i].stamps[j].ms) = 3

\* ---------------------------------------------------------------------- C6
\* C6: in the records written for a Single input, the end timestamp of
\* every record but the last is the start timestamp of the next record.
C6_Chaining ==
    SingleInput(finp) =>
       LET recs == Records(fout)
       IN \A i \in 1..(Len(recs) - 1) :
             /\ Len(recs[i].stamps) = 2
             /\ Len(recs[i + 1].stamps) >= 1
             /\ recs[i].stamps[2] = recs[i + 1].stamps[1]

\* ---------------------------------------------------------------------- C7
\* C7: for every t >= 0 in whole milliseconds, timestamp(timestampStr(t))
\* differs from t by less than 1 millisecond.
C7_RoundTrip ==
    parsed # None => (parsed[1] - time < 1 /\ time - parsed[1] < 1)

\* ---------------------------------------------------------------------- C8
\* C8: a timestamp line with neither 1 nor 2 comma-separated fields, first
\* or later, ends the run with an error: it is the last line read and
\* nothing is read or written after it.
C8_FieldCount ==
    \A i \in 1..Len(finp) :
       (IsTimesLine(finp[i]) /\ Len(finp[i].fields) \notin {1, 2}) =>
          (i = Len(finp) /\ pc \in Errors)

\* ---------------------------------------------------------------------- C9
\* C9: when the input ends and no timestamp line was read, adjustSbv does
\* not complete successfully, and it has written nothing.
C9_NoTimestampLine ==
    FirstTimes(finp) = 0 => (pc # "done" /\ fout = <<>>)

\* --------------------------------------------------------------------- C10
\* The input without its lines that start with hdrMark and come before the
\* first timestamp line.
RECURSIVE DropHash(_)
DropHash(inp) ==
    IF inp = <<>> \/ IsTimesLine(inp[1]) THEN inp
    ELSE IF inp[1].hash THEN DropHash(Tail(inp))
    ELSE <<inp[1]>> \o DropHash(Tail(inp))

\* The run so far wrote what the run on the input inp writes, and detected
\* the same format and offset.
SameAsRunOn(inp) ==
    LET s == RunOn(inp, tsArg, pc = "done")
    IN s.fout = fout /\ s.isSbv = isSbv /\ s.ts = ts

\* C10 as stated: every line that starts with '#' and comes before the
\* first timestamp line, wherever it stands among the blank and other lines
\* there, is absent from the output and has no influence on the format and
\* the offset: the run is the run on the input without these lines.
C10_HashLinesIgnored == SameAsRunOn(DropHash(finp))

\* C10, amended: the lines of the leading run of '#' lines (those before
\* the first line that does not start with '#') are absent from the output
\* and have no influence on the format and the offset: the run is the run
\* on the input without its header.
C10_HeaderIgnored ==
    SameAsRunOn(StripHeader(finp)) /\ (StripHeader(finp) = <<>> => fout = <<>>)

\* A run with a start time that skipped header comments, then detected the
\* format and wrote a record.
C10_Witness ==
    /\ HdrLen(finp) >= 1
    /\ isSbv # None
    /\ tsArg # None
    /\ fout # <<>>

\* --------------------------------------------------------------------- C11
\* The line read by the step.
NewLine == finp'[Len(finp')]

\* The times of all comma-separated fields of a timestamp line.
FieldTimes(ln) == [k \in 1..Len(ln.fields) |-> FieldTime(ln, k)]

RECURSIVE DropBlanks(_)
\* The input without the blank lines that come after some line that does
\* not start with hdrMark (the blank lines read outside the header).
DropBlanks(inp) ==
    IF inp = <<>> THEN <<>>
    ELSE LET front == SubSeq(inp, 1, Len(inp) - 1)
             last  == inp[Len(inp)]
         IN IF IsBlank(last) /\ HdrLen(front) < Len(front)
            THEN DropBlanks(front)
            ELSE Append(DropBlanks(front), last)

\* C12: a blank line read outside the header changes nothing: the caption
\* buffer, the pending times, the format, the offset and the output are
\* those of the run on the input without these blank lines, so blank lines
\* between caption text and the next timestamp line give the same records.
C12_BlankTransparent ==
    LET inp == DropBlanks(finp)
    IN IF pc = "loop" THEN RunOn(inp, tsArg, FALSE) = State
       ELSE IF pc = "done" THEN RunOn(inp, tsArg, TRUE) = State
       ELSE State \in {RunOn(inp, tsArg, FALSE), RunOn(inp, tsArg, TRUE)}

\* A blank line stood between caption text and the timestamp line that
\* wrote the text as a record.
C12_Witness ==
    /\ pc = "loop"
    /\ \E i \in 2..(Len(finp) - 1) :
          /\ IsBlank(finp[i])
          /\ ~IsBlank(finp[i - 1]) /\ IsCaption(finp[i - 1])
          /\ IsTimesLine(finp[i + 1])
    /\ \E r \in 1..Len(Records(fout)) : Len(Records(fout)[r].stamps) = 2

\* --------------------------------------------------------------------- C13
IsDigits(ds) == \A i \in 1..Len(ds) : ds[i] \in 0..9

\* C13: for every t >= 0 in whole milliseconds timestampStr(t) is
\* H:MM:SS.mmm with MM and SS of exactly two digits, each in 00..59, H the
\* hour count without padding (it may have more than two digits),
\* H*3600 + MM*60 + SS = floor(t), and a millisecond field of exactly three
\* digits; 12.25 gives 0:00:12.250 and 3785.25 gives 1:03:05.250.
C13_Format ==
    (pc = "codec" /\ timeStr # None) =>
       LET str == timeStr[1]
       IN /\ IsDigits(str.h) /\ IsDigits(str.mm)
          /\ IsDigits(str.ss) /\ IsDigits(str.ms)
          /\ Len(str.mm) = 2 /\ NumOf(str.mm) \in 0..59
          /\ Len(str.ss) = 2 /\ NumOf(str.ss) \in 0..59
          /\ Len(str.h) >= 1 /\ (Len(str.h) > 1 => str.h[1] # 0)
          /\ NumOf(str.h) * 3600 + NumOf(str.mm) * 60 + NumOf(str.ss)
               = time \div 1000
          /\ Len(str.ms) = 3
          /\ time = 12250 =>
               str = [h |-> <<0>>, mm |-> <<0, 0>>, ss |-> <<1, 2>>,
                      ms |-> <<2, 5, 0>>]
          /\ time = 3785250 =>
               str = [h |-> <<1>>, mm |-> <<0, 3>>, ss |-> <<0, 5>>,
                      ms |-> <<2, 5, 0>>]

\* A time of a three-digit hour count, one-digit minutes and seconds and
\* less than 100 ms was formatted.
C13_Witness ==
    /\ pc = "codec"
    /\ timeStr # None
    /\ time = ((100 * 60 + 3) * 60 + 5) * 1000 + 7
    /\ Len(timeStr[1].h) = 3

\* --------------------------------------------------------------------- C14
\* The components of the texts parsed, in milliseconds: the last one (the
\* seconds) and the ones to its left (kept below 2^31 / 60^MaxComps, the
\* integers of the checker being 32 bits wide).
ParseComps == {0, 5250, 12250, 59000}

ParseLeads == {0, 1000, 3000, 7000}

\* The texts parsed: 1 to MaxComps components.
ParseTexts ==
    UNION {{lead \o <<sec>> : lead \in [1..(n - 1) -> ParseLeads],
                              sec \in ParseComps} : n \in 1..MaxComps}

ParseInit ==
    /\ finp = <<>>
    /\ tsArg = None
    /\ isHdr = TRUE
    /\ isSbv = None
    /\ ts = None
    /\ times = <<>>
    /\ captions = <<>>
    /\ fout = <<>>
    /\ pc = "parse"
    /\ time = 0
    /\ timeStr \in {<<txt>> : txt \in ParseTexts}
    /\ parsed = None

\* parsed = timestamp(timeStr)
ParseText ==
    /\ pc = "parse"
    /\ parsed = None
    /\ parsed' = <<timestamp(timeStr[1])>>
    /\ UNCHANGED <<finp, tsArg, isHdr, isSbv, ts, times, captions, fout, pc,
                   time, timeStr>>

ParseNext == ParseText

ParseSpec == ParseInit /\ [][ParseNext]_vars

RECURSIVE Pow60(_)
Pow60(n) == IF n = 0 THEN 1 ELSE 60 * Pow60(n - 1)

RECURSIVE WeightedSum(_, _)
\* The sum of comps[j] * 60^(Len(comps) - j) over j in 1..k.
WeightedSum(comps, k) ==
    IF k = 0 THEN 0
    ELSE comps[k] * Pow60(Len(comps) - k) + WeightedSum(comps, k - 1)

\* C14: timestamp() of c_n:...:c_1:c_0, for any number of components, is
\* the sum of c_i * 60^i; '12.25' gives 12.25 and '1:3:5.25' gives 3785.25.
C14_WeightedSum ==
    (pc = "parse" /\ parsed # None) =>
       /\ parsed[1] = WeightedSum(timeStr[1], Len(timeStr[1]))
       /\ timeStr[1] = <<12250>> => parsed[1] = 12250
       /\ timeStr[1] = <<1000, 3000, 5250>> => parsed[1] = 3785250

\* The text 1:3:5.25 was parsed.
C14_Witness ==
    /\ pc = "parse"
    /\ timeStr = << <<1000, 3000, 5250>> >>
    /\ parsed # None

\* --------------------------------------------------------------------- C15
\* C15: a timestamp line that arrives after the format is identified and
\* directly after another timestamp line (so with an empty caption buffer)
\* raises nothing, writes nothing, and replaces the pending times by its
\* own offset-adjusted time (raw) or pair (SBV).
C15_PendingReplaced ==
    LET b == Body(finp)
        n == Len(b)
    IN (/\ n >= 2
        /\ IsTimesLine(finp[Len(finp)])
        /\ IsTimesLine(b[n - 1])
        /\ WellFormed(finp[FirstTimes(finp)])
        /\ WellFormed(b[n - 1]) /\ WellFormed(b[n])
        /\ Len(finp[FirstTimes(finp)].fields) \in {1, 2}
        /\ Len(b[n - 1].fields) = Len(finp[FirstTimes(finp)].fields)
        /\ Len(b[n].fields) = Len(finp[FirstTimes(finp)].fields)) =>
         LET off == IF tsArg = None THEN 0
                    ELSE FieldTime(finp[FirstTimes(finp)], 1) - tsArg[1]
         IN /\ pc \notin Errors
            /\ times = [k \in 1..Len(b[n].fields) |-> FieldTime(b[n], k) - off]
            /\ fout = RunOn(SubSeq(finp, 1, Len(finp) - 1), tsArg, FALSE).fout

\* --------------------------------------------------------------------- C16
\* The texts of the lines of the input buffered as caption text.
CaptionTexts(inp) ==
    LET cs == SelectSeq(StripHeader(inp),
                        LAMBDA ln : ~IsBlank(ln) /\ IsCaption(ln))
    IN [i \in 1..Len(cs) |-> cs[i].txt]

\* C16: when the first timestamp line is read the caption buffer is empty:
\* no caption text was buffered before it, and the line writes nothing.
C16_NoCaptionBeforeFormat ==
    (finp # <<>> /\ FirstTimes(finp) = Len(finp)) =>
       /\ CaptionTexts(finp) = <<>>
       /\ fout = <<>>

\* --------------------------------------------------------------------- C17
LnD20 == Ln("0:00:20.000,0:00:25.000", FALSE, 1, TRUE,
            << <<0, 0, 20000>>, <<0, 0, 25000>> >>)

\* Input of the SBV format only.
DualLines == {LnHello, LnD10, LnD15, LnD20}

DualRead ==
    \E ln \in DualLines :
       /\ pc = "loop"
       /\ Len(finp) < MaxDualLines
       /\ finp' = Append(finp, ln)
       /\ Become(ProcessLine(State, ln))
       /\ UNCHANGED <<tsArg, time, timeStr, parsed>>

DualNext == DualRead \/ EndOfInput

DualSpec == Init /\ [][DualNext]_vars

RECURSIVE AllTimes(_)
\* The timestamps of the timestamp lines of the input, in reading order.
AllTimes(inp) ==
    IF inp = <<>> THEN <<>>
    ELSE IF IsTimesLine(inp[1]) /\ WellFormed(inp[1])
    THEN FieldTimes(inp[1]) \o AllTimes(Tail(inp))
    ELSE AllTimes(Tail(inp))

NonDecreasing(seq) == \A i \in 1..(Len(seq) - 1) : seq[i] <= seq[i + 1]

\* The assertion on the number of pending times holds where the step starts.
LenAssertHolds ==
    \/ isSbv = None /\ times = <<>>
    \/ isSbv = <<TRUE>> /\ Len(times) = 2
    \/ isSbv = <<FALSE>> /\ Len(times) = 1

\* The step raises the AssertionError of timestampStr.
TimeAssertFails ==
    /\ pc = "loop"
    /\ pc' = "AssertionError"
    /\ finp' = finp \/ LenAssertHolds

\* C17: on input of non-negative (here also non-decreasing) timestamps and
\* a start time that is absent or >= 0, every time handed to timestampStr
\* is >= 0: its assertion never fails.
C17_NonNegative ==
    [][NonDecreasing(AllTimes(finp')) => ~TimeAssertFails]_vars

\* --------------------------------------------------------------------- C18
\* C18: every record written with a start and an end has end >= start.
C18_EndAfterStart ==
    \A i \in 1..Len(fout) :
       (fout[i].kind = "time" /\ Len(fout[i].stamps) = 2) =>
          Reads(fout[i].stamps[2]) >= Reads(fout[i].stamps[1])

\* --------------------------------------------------------------------- C19
\* Timestamp line, text lines, separator, in this order, repeatedly.
Serialized(out) ==
    \A i \in 1..Len(out) :
       /\ out[i].kind = "time" =>
             /\ i < Len(out) /\ out[i + 1].kind = "text"
             /\ i > 1 => out[i - 1].kind = "sep"
       /\ out[i].kind = "text" =>
             /\ i > 1 /\ out[i - 1].kind \in {"time", "text"}
             /\ i < Len(out) => out[i + 1].kind \in {"text", "sep"}
       /\ out[i].kind = "sep" =>
             /\ i > 1 /\ out[i - 1].kind = "text"
             /\ i < Len(out) => out[i + 1].kind = "time"

TextOf(out) ==
    LET tl == SelectSeq(out, LAMBDA l : l.kind = "text")
    IN [i \in 1..Len(tl) |-> tl[i].text]

BufferTexts == [i \in 1..Len(captions) |-> captions[i].txt]

\* What is written and what is buffered is the caption text of the input.
Conserved ==
    /\ pc = "loop" => TextOf(fout) \o BufferTexts = CaptionTexts(finp)
    /\ pc = "done" => TextOf(fout) = CaptionTexts(finp)

====
